---- MODULE Spec2Model ----
(***************************************************************************)
(* State-machine model of script.js ("Identifying Musical Intervals"):     *)
(* the round state machine, the token-based playback scheduler, the        *)
(* question generator and the score tracker.                               *)
(*                                                                         *)
(* Execution model.  The script runs on one event loop.  A handler runs    *)
(* to its first await; the rest of an async function is a continuation.    *)
(* A continuation whose awaited promise is already settled runs in the     *)
(* microtask queue, before any other event (click, timer, animation        *)
(* frame, fetch completion): the guard ~Busy on every event action states  *)
(* that.  Times are in milliseconds.                                       *)
(***************************************************************************)
EXTENDS Integers, Sequences, FiniteSets, TLC

VARIABLES
    started,            \* let started
    canAnswer,          \* let canAnswer
    awaitingNext,       \* let awaitingNext
    question,           \* let question (NoQ models null)
    settings,           \* const settings
    score,              \* const score
    lastPlayToken,      \* let lastPlayToken
    audioCtx,           \* audioCtx: "null", or its state "suspended" / "running";
                        \* "uncreated" is null in a browser that has Web Audio
    activeVoices,       \* const activeVoices (Set)
    activeUiAudios,     \* const activeUiAudios (Set), by its size
    bufferPromiseCache, \* const bufferPromiseCache (Map url -> promise state)
    synthFallbackWarned,\* let synthFallbackWarned
    missingSamples,     \* environment: the urls whose fetch or decode fails
    settingsModalOpen,  \* settingsModal is shown (not .hidden)
    timers,             \* pending window.setTimeout callbacks of playCurrentInterval
    calls,              \* playCurrentInterval invocations suspended at an await
                        \* (field issued is history: the question's pitches
                        \* when the call was made)
    rafPending,         \* startNewRound invocations awaiting requestAnimationFrame
    rafRunning,         \* callbacks of the animation frame being served
    now,                \* the clock (ctx.currentTime and the timer clock), ms
    qPlayed,            \* history: a playback request was issued for this question
    qAnswers,           \* history: the answers recorded for this question
    lastOutcome         \* history: how the last step ended

vars == <<started, canAnswer, awaitingNext, question, settings, score,
          lastPlayToken, audioCtx, activeVoices, activeUiAudios,
          bufferPromiseCache, synthFallbackWarned, missingSamples,
          settingsModalOpen, timers, calls, rafPending, rafRunning, now,
          qPlayed, qAnswers, lastOutcome>>

\* The program's own state, without the history variables.
progVars == <<started, canAnswer, awaitingNext, question, settings, score,
              lastPlayToken, audioCtx, activeVoices, activeUiAudios,
              bufferPromiseCache, synthFallbackWarned, settingsModalOpen,
              timers, calls, rafPending, rafRunning, now>>

(***************************** bounds **************************************)
MaxToken == 2       \* playback requests (tokens) per behaviour

(*************************** constants *************************************)
NOTE_PLAY_SEC == 1150           \* 1.15 s
GAP_SEC == 180                  \* 0.18 s
ROUND_START_DELAY_SEC == 250    \* 0.25 s
SCHEDULE_LEAD_SEC == 30         \* the 0.03 s added to ctx.currentTime

NaN == -1000000                 \* stands for the JS value NaN

Max(a, b) == IF a >= b THEN a ELSE b
Min(a, b) == IF a <= b THEN a ELSE b

\* JS remainder: the sign follows the dividend.
JsRem(a, b) == IF a >= 0 THEN a % b ELSE 0 - ((0 - a) % b)

\* pcFromPitch_Rem is the variant that is the bare remainder p % 12.
pcFromPitch_Rem(p) == JsRem(p, 12)
pcFromPitch(p) == JsRem(JsRem(p, 12) + 12, 12)
octFromPitch(p) == p \div 12
pitchFromPcOct(pc, oct) == oct * 12 + pc

MIN_PITCH == pitchFromPcOct(0, 3)
MAX_PITCH == pitchFromPcOct(0, 5)

IVL_ALL ==
    << [code |-> "m2", semitones |-> 1],
       [code |-> "M2", semitones |-> 2],
       [code |-> "m3", semitones |-> 3],
       [code |-> "M3", semitones |-> 4],
       [code |-> "P4", semitones |-> 5],
       [code |-> "A4/d5", semitones |-> 6],
       [code |-> "P5", semitones |-> 7],
       [code |-> "m6", semitones |-> 8],
       [code |-> "M6", semitones |-> 9],
       [code |-> "m7", semitones |-> 10],
       [code |-> "M7", semitones |-> 11],
       [code |-> "P8", semitones |-> 12] >>

PC_TO_STEM ==
    << "c", "csharp", "d", "dsharp", "e", "f", "fsharp", "g", "gsharp",
       "a", "asharp", "b" >>

\* PC_TO_STEM[(pc + 12) % 12]; the tuple is indexed from 1.
getStemForPc(pc) == PC_TO_STEM[JsRem(pc + 12, 12) + 1]

\* `${AUDIO_DIR}/${stem}${octaveNum}.mp3`, as the pair it is made of.
noteUrl(stem, octaveNum) == <<stem, octaveNum>>

\* The url loadPitchBuffer(pitch) asks loadBuffer for.
PitchUrl(pitch) == noteUrl(getStemForPc(pcFromPitch(pitch)), octFromPitch(pitch))

(************************ settings and questions ***************************)
NoQ == [rootPitch |-> 0, highPitch |-> 0, interval |-> [code |-> "", semitones |-> 0]]

\* Number.parseInt(String(v), 10), then the clamp; NaN gives lo.
clampInt(v, lo, hi) == IF v = NaN THEN lo ELSE Max(lo, Min(hi, v))

\* activeIntervals(), lines 710-713.  activeIntervals_All is the variant that
\* returns the whole catalog.
activeIntervals_All(s) == IVL_ALL
activeIntervals(s) == SubSeq(IVL_ALL, 1, clampInt(s.intervalCount, 2, Len(IVL_ALL)))

maxIntervalSemitonesForCount(count) ==
    IVL_ALL[clampInt(count, 2, Len(IVL_ALL))].semitones

\* randIntInclusive(lo, hi) with Math.random() giving the offset r in 0..(hi-lo).
\* randIntInclusive_OpenLow is the variant that never returns lo.
randIntInclusive_OpenLow(lo, hi, r) == IF hi < lo THEN lo ELSE lo + r + 1
randIntInclusive(lo, hi, r) == IF hi < lo THEN lo ELSE lo + r

\* pickQuestion() under settings s; j is Math.floor(Math.random() * list.length)
\* and r the offset randIntInclusive draws.  pickQuestion_NoHighCheck is the
\* variant without line 845; pickQuestion_RootDrawn the variant that draws
\* the root in both modes.
pickQuestion_NoHighCheck(s, j, r) ==
    LET list == activeIntervals(s)
        interval == list[j + 1]
        d == interval.semitones
        rootPitch == IF s.rootMode = "random"
                     THEN randIntInclusive(MIN_PITCH, MAX_PITCH - d, r)
                     ELSE s.fixedRootPitch
    IN  IF rootPitch # NaN /\ (rootPitch < MIN_PITCH \/ rootPitch > MAX_PITCH) THEN NoQ
        ELSE [rootPitch |-> rootPitch,
              highPitch |-> IF rootPitch = NaN THEN NaN ELSE rootPitch + d,
              interval |-> interval]

pickQuestion_RootDrawn(s, j, r) ==
    LET list == activeIntervals(s)
        interval == list[j + 1]
        d == interval.semitones
        rootPitch == randIntInclusive(MIN_PITCH, MAX_PITCH - d, r)
    IN  [rootPitch |-> rootPitch, highPitch |-> rootPitch + d,
         interval |-> interval]

pickQuestion(s, j, r) ==
    LET list == activeIntervals(s)
        interval == list[j + 1]
        d == interval.semitones
        rootPitch == IF s.rootMode = "random"
                     THEN randIntInclusive(MIN_PITCH, MAX_PITCH - d, r)
                     ELSE s.fixedRootPitch
        highPitch == rootPitch + d
    IN  IF rootPitch # NaN /\ (rootPitch < MIN_PITCH \/ rootPitch > MAX_PITCH) THEN NoQ
        ELSE IF rootPitch # NaN /\ (highPitch < MIN_PITCH \/ highPitch > MAX_PITCH) THEN NoQ
        ELSE [rootPitch |-> rootPitch,
              highPitch |-> IF rootPitch = NaN THEN NaN ELSE highPitch,
              interval |-> interval]

\* The draws of Math.random() the model follows: the two ends of the interval
\* range, and the low end of the root range (a fixed root ignores the draw).
IntervalDraws(s) == {0, Len(activeIntervals(s)) - 1}
RootDraws(s, j) == {0}

\* The values the settings form offers: populateIntervalCountOptions gives
\* 2..12, rootModeSel the two modes, buildRootOptions the roots that leave
\* room for the largest active interval.  The model follows one of them.
FormCounts == {2}
FormModes == {"fixed"}
FormRoots(count) ==
    {p \in {pitchFromPcOct(0, 3)} :
        MIN_PITCH <= p /\ p <= MAX_PITCH - maxIntervalSemitonesForCount(count)}
UiForms ==
    UNION {{[count |-> c, mode |-> m, root |-> p] :
                m \in FormModes, p \in FormRoots(c)} : c \in FormCounts}

(***************************** score ***************************************)
ZeroScore ==
    [asked |-> 0, correct |-> 0, incorrect |-> 0, streak |-> 0, longest |-> 0,
     history |-> <<>>]

\* resetScore(), lines 1128-1135.  resetScore_KeepAsked is the variant
\* without `score.asked = 0`.
resetScore_KeepAsked == [ZeroScore EXCEPT !.asked = score.asked]
resetScore == ZeroScore

\* Math.round(a / b) for b > 0: the nearest integer, a half rounded up.
MathRound(a, b) == (2 * a + b) \div (2 * b)

\* scorePercent(), lines 678-681, in tenths of a percent: the integer
\* Math.round((correct / asked) * 1000) that the code then divides by 10.
\* scorePercent_Truncated is the variant that rounds down.
scorePercent_Truncated(sc) ==
    IF sc.asked <= 0 THEN 0 ELSE (sc.correct * 1000) \div sc.asked
scorePercent(sc) ==
    IF sc.asked <= 0 THEN 0 ELSE MathRound(sc.correct * 1000, sc.asked)

(***************************** audio ***************************************)
\* stopAllNotes(fadeSec): every active voice is faded and its stop scheduled;
\* the voice leaves the set when it ends.  Without an audio context it returns.
stopAllNotes(voices) ==
    IF audioCtx = "null" THEN voices
    ELSE {[v EXCEPT !.fading = TRUE] : v \in voices}

CacheHas(cache, url) == url \in DOMAIN cache

\* loadBuffer(url): the cached promise, or a new fetch whose promise is cached.
\* loadBuffer_Refetch is the variant without the cache look-up of line 339.
loadBuffer_Refetch(cache, url) ==
    [u \in DOMAIN cache \cup {url} |-> IF u = url THEN "pending" ELSE cache[u]]
loadBuffer(cache, url) ==
    IF CacheHas(cache, url) THEN cache
    ELSE [u \in DOMAIN cache \cup {url} |-> IF u = url THEN "pending" ELSE cache[u]]

Settled(cache, url) == CacheHas(cache, url) /\ cache[url] # "pending"

\* A suspended call whose awaited promise is settled: it runs as a microtask.
Runnable(c) ==
    \/ c.stage = "resume" /\ audioCtx # "suspended"
    \/ c.stage = "load" /\ Settled(bufferPromiseCache, PitchUrl(c.a1))
                        /\ Settled(bufferPromiseCache, PitchUrl(c.a2))

MicrotaskPending == \E c \in calls : Runnable(c)

\* Nothing else runs while microtasks are queued or a frame's callbacks run.
Busy == MicrotaskPending \/ rafRunning > 0

Urls == {PitchUrl(p) : p \in MIN_PITCH .. MAX_PITCH}

\* The asset directories the model follows: every sample present, and the
\* sample of C#3 (the upper note of the lowest minor second) missing.
SampleWorlds == {{}, {PitchUrl(MIN_PITCH + 1)}}

(***************************** Init ****************************************)
\* The state when init() has returned: the begin modal is shown, and
\* showSettingsModal -> stopAllAudio -> ensureAudioGraph has created the
\* audio context where the browser has one (suspended until a user gesture
\* under an autoplay policy, running otherwise).
Init ==
    /\ started = FALSE
    /\ canAnswer = FALSE
    /\ awaitingNext = FALSE
    /\ question = NoQ
    /\ settings = [intervalCount |-> 12, rootMode |-> "random",
                   fixedRootPitch |-> pitchFromPcOct(0, 4)]
    /\ score = ZeroScore
    /\ lastPlayToken = 0
    /\ audioCtx \in {"null", "suspended", "running"}
    /\ activeVoices = {}
    /\ activeUiAudios = 0
    /\ bufferPromiseCache = [u \in {} |-> "pending"]
    /\ synthFallbackWarned = FALSE
    /\ missingSamples \in SampleWorlds
    /\ settingsModalOpen = TRUE
    /\ timers = {}
    /\ calls = {}
    /\ rafPending = 0
    /\ rafRunning = 0
    /\ now = 0
    /\ qPlayed = FALSE
    /\ qAnswers = 0
    /\ lastOutcome = "ok"

(************************ playCurrentInterval *******************************)
\* Line 882: Math.max(0, Math.round((t0 - ctx.currentTime) * 1000)).
\* startInMs_Zero is the variant that does not wait for t0.
startInMs_Zero(t0, currentTime) == 0
startInMs(t0, currentTime) == Max(0, t0 - currentTime)

\* Line 853: const token = ++lastPlayToken.  nextPlayToken_Reuse is the
\* variant that does not increment.
nextPlayToken_Reuse(tok) == tok
nextPlayToken(tok) == tok + 1

\* Lines 851-864: the guard, the new token, the flags, stopAllAudio; the call
\* then awaits resumeAudioIfNeeded().  playCurrentInterval_KeepCanAnswer is
\* the variant without `canAnswer = false` (lines 856 and 859).
playCurrentInterval_KeepCanAnswer(allowAnswerAfter, delaySec) ==
    IF ~started \/ question = NoQ
    THEN UNCHANGED <<lastPlayToken, canAnswer, awaitingNext, activeVoices,
                     activeUiAudios, calls, qPlayed>>
    ELSE /\ lastPlayToken' = nextPlayToken(lastPlayToken)
         /\ canAnswer' = canAnswer
         /\ awaitingNext' = IF allowAnswerAfter THEN FALSE ELSE awaitingNext
         /\ activeUiAudios' = 0
         /\ activeVoices' = stopAllNotes(activeVoices)
         /\ calls' = calls \cup
                {[token |-> nextPlayToken(lastPlayToken), allow |-> allowAnswerAfter,
                  delay |-> Max(0, delaySec), stage |-> "resume",
                  t0 |-> 0, a1 |-> 0, a2 |-> 0,
                  issued |-> <<question.rootPitch, question.highPitch>>]}
         /\ qPlayed' = TRUE

playCurrentInterval(allowAnswerAfter, delaySec) ==
    IF ~started \/ question = NoQ
    THEN UNCHANGED <<lastPlayToken, canAnswer, awaitingNext, activeVoices,
                     activeUiAudios, calls, qPlayed>>
    ELSE /\ lastPlayToken' = nextPlayToken(lastPlayToken)
         /\ canAnswer' = FALSE
         /\ awaitingNext' = IF allowAnswerAfter THEN FALSE ELSE awaitingNext
         /\ activeUiAudios' = 0
         /\ activeVoices' = stopAllNotes(activeVoices)
         /\ calls' = calls \cup
                {[token |-> nextPlayToken(lastPlayToken), allow |-> allowAnswerAfter,
                  delay |-> Max(0, delaySec), stage |-> "resume",
                  t0 |-> 0, a1 |-> 0, a2 |-> 0,
                  issued |-> <<question.rootPitch, question.highPitch>>]}
         /\ qPlayed' = TRUE

\* Lines 867-876, after `await resumeAudioIfNeeded()`: the context check, t0,
\* and the two loadPitchBuffer calls, which read the question as it is now.
ContinueAfterResume(c) ==
    /\ c \in calls
    /\ c.stage = "resume"
    /\ audioCtx # "suspended"
    /\ IF audioCtx = "null"
       THEN /\ calls' = calls \ {c}
            /\ lastOutcome' = "noAudio"
            /\ UNCHANGED bufferPromiseCache
       ELSE IF question = NoQ
       THEN /\ calls' = calls \ {c}
            /\ lastOutcome' = "threw"
            /\ UNCHANGED bufferPromiseCache
       ELSE /\ calls' = (calls \ {c}) \cup
                {[c EXCEPT !.stage = "load",
                           !.t0 = now + SCHEDULE_LEAD_SEC + c.delay,
                           !.a1 = question.rootPitch,
                           !.a2 = question.highPitch]}
            /\ bufferPromiseCache' =
                  loadBuffer(loadBuffer(bufferPromiseCache,
                                        PitchUrl(question.rootPitch)),
                             PitchUrl(question.highPitch))
            /\ lastOutcome' = "ok"
    /\ UNCHANGED <<started, canAnswer, awaitingNext, question, settings, score,
                   lastPlayToken, audioCtx, activeVoices, activeUiAudios,
                   synthFallbackWarned, settingsModalOpen, timers, rafPending,
                   rafRunning, now, missingSamples, qPlayed, qAnswers>>

\* trackVoice: the voice playBufferWindowed / playSynthToneWindowed adds.
Voice(token, pitch, startTime, synth) ==
    [token |-> token, pitch |-> pitch, startTime |-> startTime,
     synth |-> synth, fading |-> FALSE]

HasBuffer(url) == bufferPromiseCache[url] = "buffer"

\* Lines 878-896, after `await Promise.all(...)`: the fallback warning, the
\* enable timer, then the two voices.  A sample voice plays the loaded buffer;
\* a synthesized voice reads the question again and throws when it is null.
ContinueAfterLoad(c) ==
    /\ c \in calls
    /\ c.stage = "load"
    /\ Settled(bufferPromiseCache, PitchUrl(c.a1))
    /\ Settled(bufferPromiseCache, PitchUrl(c.a2))
    /\ LET b1 == HasBuffer(PitchUrl(c.a1))
           b2 == HasBuffer(PitchUrl(c.a2))
           v1 == IF b1 THEN {Voice(c.token, c.a1, c.t0, FALSE)}
                 ELSE IF question # NoQ
                 THEN {Voice(c.token, question.rootPitch, c.t0, TRUE)}
                 ELSE {}
           threw1 == ~b1 /\ question = NoQ
           v2 == IF threw1 THEN {}
                 ELSE IF b2
                 THEN {Voice(c.token, c.a2, c.t0 + NOTE_PLAY_SEC + GAP_SEC, FALSE)}
                 ELSE IF question # NoQ
                 THEN {Voice(c.token, question.highPitch,
                             c.t0 + NOTE_PLAY_SEC + GAP_SEC, TRUE)}
                 ELSE {}
           threw2 == ~threw1 /\ ~b2 /\ question = NoQ
       IN  /\ synthFallbackWarned' = (synthFallbackWarned \/ ~b1 \/ ~b2)
           /\ timers' = IF c.allow
                        THEN timers \cup
                             {[token |-> c.token,
                               due |-> now + startInMs(c.t0, now),
                               t0 |-> c.t0]}
                        ELSE timers
           /\ activeVoices' = activeVoices \cup v1 \cup v2
           /\ lastOutcome' = IF threw1 \/ threw2 THEN "threw"
                             ELSE IF c.allow THEN "armed" ELSE "playedOnly"
    /\ calls' = calls \ {c}
    /\ UNCHANGED <<started, canAnswer, awaitingNext, question, settings, score,
                   lastPlayToken, audioCtx, activeUiAudios, bufferPromiseCache,
                   settingsModalOpen, rafPending, rafRunning, now, missingSamples, qPlayed,
                   qAnswers>>

\* Line 884: the timer's token check.  TimerTokenCurrent_Always is the variant
\* without it.
TimerTokenCurrent_Always(token) == TRUE
TimerTokenCurrent(token) == token = lastPlayToken

\* Lines 883-889: the enable-answer callback of window.setTimeout.
EnableTimerFires(t) ==
    /\ ~Busy
    /\ t \in timers
    /\ timers' = timers \ {t}
    /\ IF ~TimerTokenCurrent(t.token)
       THEN /\ lastOutcome' = "staleTimer"
            /\ UNCHANGED canAnswer
       ELSE IF ~awaitingNext
       THEN /\ canAnswer' = TRUE
            /\ lastOutcome' = "ok"
       ELSE /\ lastOutcome' = "lockedTimer"
            /\ UNCHANGED canAnswer
    /\ UNCHANGED <<started, awaitingNext, question, settings, score,
                   lastPlayToken, audioCtx, activeVoices, activeUiAudios,
                   bufferPromiseCache, synthFallbackWarned, settingsModalOpen,
                   calls, rafPending, rafRunning, now, missingSamples, qPlayed,
                   qAnswers>>

(************************* the audio engine's events ***********************)
\* ctx.resume() resolves: the context runs.
CtxResumed ==
    /\ ~Busy
    /\ audioCtx = "suspended"
    /\ \E c \in calls : c.stage = "resume"
    /\ audioCtx' = "running"
    /\ lastOutcome' = "ok"
    /\ UNCHANGED <<started, canAnswer, awaitingNext, question, settings, score,
                   lastPlayToken, activeVoices, activeUiAudios,
                   bufferPromiseCache, synthFallbackWarned, settingsModalOpen,
                   timers, calls, rafPending, rafRunning, now, missingSamples, qPlayed,
                   qAnswers>>

\* The async body of loadBuffer(url), lines 341-353, ends: the decoded buffer,
\* or null when the fetch or the decode fails.
FetchDone(url) ==
    /\ ~Busy
    /\ CacheHas(bufferPromiseCache, url)
    /\ bufferPromiseCache[url] = "pending"
    /\ bufferPromiseCache' =
          [bufferPromiseCache EXCEPT
              ![url] = IF url \in missingSamples THEN "null" ELSE "buffer"]
    /\ lastOutcome' = "ok"
    /\ UNCHANGED <<started, canAnswer, awaitingNext, question, settings, score,
                   lastPlayToken, audioCtx, activeVoices, activeUiAudios,
                   synthFallbackWarned, settingsModalOpen, timers, calls,
                   rafPending, rafRunning, now, missingSamples, qPlayed,
                   qAnswers>>

\* The ends of sounds.  They only shrink activeVoices and activeUiAudios,
\* which no guard of the script reads, so Spec, SpecTimed and SpecForm keep a
\* sound in its set and leave these two steps out.
\* src.onended of trackVoice.
VoiceEnded(v) ==
    /\ ~Busy
    /\ v \in activeVoices
    /\ activeVoices' = activeVoices \ {v}
    /\ lastOutcome' = "ok"
    /\ UNCHANGED <<started, canAnswer, awaitingNext, question, settings, score,
                   lastPlayToken, audioCtx, activeUiAudios, bufferPromiseCache,
                   synthFallbackWarned, settingsModalOpen, timers, calls,
                   rafPending, rafRunning, now, missingSamples, qPlayed,
                   qAnswers>>

\* a.onended of playUiSound.
UiSoundEnded ==
    /\ ~Busy
    /\ activeUiAudios > 0
    /\ activeUiAudios' = activeUiAudios - 1
    /\ lastOutcome' = "ok"
    /\ UNCHANGED <<started, canAnswer, awaitingNext, question, settings, score,
                   lastPlayToken, audioCtx, activeVoices, bufferPromiseCache,
                   synthFallbackWarned, settingsModalOpen, timers, calls,
                   rafPending, rafRunning, now, missingSamples, qPlayed,
                   qAnswers>>

(***************************** commands *************************************)
\* startNewRound, lines 900-912, for started = TRUE (its callers ensure it):
\* the flags, the new question, then `await new Promise(requestAnimationFrame)`.
startNewRound(s, j, r) ==
    /\ awaitingNext' = FALSE
    /\ canAnswer' = FALSE
    /\ question' = pickQuestion(s, j, r)
    /\ rafPending' = rafPending + 1
    /\ qPlayed' = FALSE
    /\ qAnswers' = 0

\* Room, under the bounds, for one more playback request.
TokenRoom == lastPlayToken + rafPending + rafRunning < MaxToken

\* Line 1240: const allowAnswerAfter = !awaitingNext.
\* ReplayAllowAnswerAfter_Always is the variant that passes true,
\* ReplayAllowAnswerAfter_Never the variant that passes false.
ReplayAllowAnswerAfter_Always == TRUE
ReplayAllowAnswerAfter_Never == FALSE
ReplayAllowAnswerAfter == ~awaitingNext

\* replayBtn click handler, lines 1238-1242.
ReplayClick ==
    /\ ~Busy
    /\ IF ~started \/ question = NoQ
       THEN /\ lastOutcome' = "ignoredReplay"
            /\ UNCHANGED <<lastPlayToken, canAnswer, awaitingNext, activeVoices,
                           activeUiAudios, calls, qPlayed>>
       ELSE /\ TokenRoom
            /\ playCurrentInterval(ReplayAllowAnswerAfter, 0)
            /\ lastOutcome' = IF awaitingNext THEN "replayLocked"
                               ELSE IF canAnswer THEN "replayRearm" ELSE "replay"
    /\ UNCHANGED <<started, question, settings, score, audioCtx,
                   bufferPromiseCache, synthFallbackWarned, settingsModalOpen,
                   timers, rafPending, rafRunning, now, missingSamples,
                   qAnswers>>

\* Line 1245: the guard of the nextBtn click handler, negated.
\* NextAccepted_NoLock is the variant that does not test awaitingNext.
NextAccepted_NoLock == started
NextAccepted == started /\ awaitingNext

\* nextBtn click handler, lines 1244-1247.
NextClick(j, r) ==
    /\ ~Busy
    /\ IF ~NextAccepted
       THEN /\ lastOutcome' = "ignoredNext"
            /\ UNCHANGED <<awaitingNext, canAnswer, question, rafPending, qPlayed,
                   qAnswers>>
       ELSE /\ TokenRoom
            /\ startNewRound(settings, j, r)
            /\ lastOutcome' = "ok"
    /\ UNCHANGED <<started, settings, score, lastPlayToken, audioCtx,
                   activeVoices, activeUiAudios, bufferPromiseCache,
                   synthFallbackWarned, settingsModalOpen, timers, calls,
                   rafRunning, now, missingSamples>>

\* The animation frame serves every callback requested before it, one after
\* the other; each resumes a startNewRound at line 913-914, which calls
\* playCurrentInterval({ allowAnswerAfter: true, delaySec: ROUND_START_DELAY_SEC }).
RafFrame ==
    /\ ~MicrotaskPending
    /\ rafPending + rafRunning > 0
    /\ IF rafRunning > 0
       THEN rafRunning' = rafRunning - 1 /\ UNCHANGED rafPending
       ELSE rafRunning' = rafPending - 1 /\ rafPending' = 0
    /\ playCurrentInterval(TRUE, ROUND_START_DELAY_SEC)
    /\ lastOutcome' = IF ~started \/ question = NoQ THEN "ignoredPlay" ELSE "ok"
    /\ UNCHANGED <<started, question, settings, score, audioCtx,
                   bufferPromiseCache, synthFallbackWarned, settingsModalOpen,
                   timers, now, missingSamples, qAnswers>>

\* Line 951: the guard of onAnswer, negated.  AnswerAccepted_NoCanAnswer is
\* the variant that does not test canAnswer.
AnswerAccepted_NoCanAnswer == started /\ question # NoQ /\ ~awaitingNext
AnswerAccepted == started /\ question # NoQ /\ canAnswer /\ ~awaitingNext

\* The score after an accepted answer, lines 956-1003.  Recorded_KeepStreak is
\* the variant without `score.streak = 0` (line 977).
Recorded_KeepStreak(sc, q, chosen, s) ==
    LET isCorrect == chosen.code = q.interval.code
        streak == IF isCorrect THEN sc.streak + 1 ELSE sc.streak
    IN  [asked |-> sc.asked + 1,
         correct |-> IF isCorrect THEN sc.correct + 1 ELSE sc.correct,
         incorrect |-> IF isCorrect THEN sc.incorrect ELSE sc.incorrect + 1,
         streak |-> streak,
         longest |-> IF isCorrect THEN Max(sc.longest, streak) ELSE sc.longest,
         history |-> Append(sc.history,
                            [root |-> q.rootPitch, high |-> q.highPitch,
                             interval |-> q.interval.code, guess |-> chosen.code,
                             correct |-> isCorrect, mode |-> s.rootMode,
                             intervalCount |-> s.intervalCount])]

Recorded(sc, q, chosen, s) ==
    LET isCorrect == chosen.code = q.interval.code
        streak == IF isCorrect THEN sc.streak + 1 ELSE 0
    IN  [asked |-> sc.asked + 1,
         correct |-> IF isCorrect THEN sc.correct + 1 ELSE sc.correct,
         incorrect |-> IF isCorrect THEN sc.incorrect ELSE sc.incorrect + 1,
         streak |-> streak,
         longest |-> IF isCorrect THEN Max(sc.longest, streak) ELSE sc.longest,
         history |-> Append(sc.history,
                            [root |-> q.rootPitch, high |-> q.highPitch,
                             interval |-> q.interval.code, guess |-> chosen.code,
                             correct |-> isCorrect, mode |-> s.rootMode,
                             intervalCount |-> s.intervalCount])]

\* lockAfterAnswer(), lines 734-738: the flags it leaves.
\* lockAfterAnswer_KeepCanAnswer is the variant without `canAnswer = false`.
lockAfterAnswer_KeepCanAnswer == [canAnswer |-> canAnswer, awaitingNext |-> TRUE]
lockAfterAnswer == [canAnswer |-> FALSE, awaitingNext |-> TRUE]

\* onAnswer(intervalIndex), lines 950-1011; it ends with playUiSound and
\* lockAfterAnswer.  For an index outside the catalog, chosen (line 953) is
\* undefined: line 956 adds one to asked and line 958 throws a TypeError.
onAnswer(intervalIndex) ==
    /\ ~Busy
    /\ IF ~AnswerAccepted
       THEN /\ lastOutcome' = "ignoredAnswer"
            /\ UNCHANGED <<score, activeUiAudios, canAnswer, awaitingNext,
                           qAnswers>>
       ELSE IF intervalIndex \notin 0 .. (Len(IVL_ALL) - 1)
       THEN /\ score' = [score EXCEPT !.asked = @ + 1]
            /\ lastOutcome' = "threw"
            /\ UNCHANGED <<activeUiAudios, canAnswer, awaitingNext, qAnswers>>
       ELSE /\ score' = Recorded(score, question, IVL_ALL[intervalIndex + 1], settings)
            /\ qAnswers' = qAnswers + 1
            /\ activeUiAudios' = activeUiAudios + 1
            /\ canAnswer' = lockAfterAnswer.canAnswer
            /\ awaitingNext' = lockAfterAnswer.awaitingNext
            /\ lastOutcome' = "ok"
    /\ UNCHANGED <<started, question, settings, lastPlayToken, audioCtx,
                   activeVoices, bufferPromiseCache, synthFallbackWarned,
                   settingsModalOpen, timers, calls, rafPending, rafRunning,
                   now, missingSamples, qPlayed>>

\* The answer buttons a user can press: buildAnswerButtons makes one per
\* catalog entry and refreshAnswerVisibility shows the first intervalCount.
AnswerButtons == 0 .. (clampInt(settings.intervalCount, 2, Len(IVL_ALL)) - 1)

\* settingsBtn click: showSettingsModal({ purpose: "settings" }), lines
\* 788-814: stopAllAudio, the select sound, the modal shown.
ShowSettings ==
    /\ ~Busy
    /\ ~settingsModalOpen
    /\ activeVoices' = stopAllNotes(activeVoices)
    /\ activeUiAudios' = 1
    /\ settingsModalOpen' = TRUE
    /\ lastOutcome' = "ok"
    /\ UNCHANGED <<started, canAnswer, awaitingNext, question, settings, score,
                   lastPlayToken, audioCtx, bufferPromiseCache,
                   synthFallbackWarned, timers, calls, rafPending, rafRunning,
                   now, missingSamples, qPlayed, qAnswers>>

\* settingsClose click, overlay click or Escape: hideSettingsModal, lines
\* 816-820.  settingsModalLocked is true exactly while the modal is the begin
\* screen (shown by init or by reset, with started = FALSE), so the modal
\* closes exactly when the game is started.  The settingsClose button plays
\* the back sound first (line 1192).
hideSettingsModal ==
    /\ ~Busy
    /\ settingsModalOpen
    /\ started
    /\ settingsModalOpen' = FALSE
    /\ activeUiAudios' \in {activeUiAudios, activeUiAudios + 1}
    /\ lastOutcome' = "ok"
    /\ UNCHANGED <<started, canAnswer, awaitingNext, question, settings, score,
                   lastPlayToken, audioCtx, activeVoices,
                   bufferPromiseCache, synthFallbackWarned, timers, calls,
                   rafPending, rafRunning, now, missingSamples, qPlayed,
                   qAnswers>>

\* Lines 1138-1140: the settings read from the form.
FormSettings(form) ==
    [intervalCount |-> clampInt(form.count, 2, Len(IVL_ALL)),
     rootMode |-> IF form.mode = "fixed" THEN "fixed" ELSE "random",
     fixedRootPitch |-> form.root]

\* settingsApply click: applySettingsAndRestart, lines 1137-1157, with the
\* form's values and the draws of pickQuestion, up to the await inside
\* startNewRound.
applySettingsAndRestart(form, j, r) ==
    /\ ~Busy
    /\ settingsModalOpen
    /\ TokenRoom
    /\ settings' = FormSettings(form)
    /\ startNewRound(FormSettings(form), j, r)
    /\ score' = resetScore
    /\ started' = TRUE
    /\ settingsModalOpen' = FALSE
    /\ lastOutcome' = "ok"
    /\ UNCHANGED <<lastPlayToken, audioCtx, activeVoices, activeUiAudios,
                   bufferPromiseCache, synthFallbackWarned, timers, calls,
                   rafRunning, now, missingSamples>>

\* The score part of stopAndResetToNotStarted, line 1167.
\* ResetScoreOnReset_Keep is the variant without the call of resetScore.
ResetScoreOnReset_Keep == score
ResetScoreOnReset == resetScore

\* resetBtn click, lines 1233-1236: stopAndResetToNotStarted (1159-1174),
\* then showSettingsModal({ purpose: "begin" }).
stopAndResetToNotStarted ==
    /\ ~Busy
    /\ activeVoices' = stopAllNotes(activeVoices)
    /\ activeUiAudios' = 0
    /\ started' = FALSE
    /\ canAnswer' = FALSE
    /\ awaitingNext' = FALSE
    /\ question' = NoQ
    /\ score' = ResetScoreOnReset
    /\ settingsModalOpen' = TRUE
    /\ qPlayed' = FALSE
    /\ qAnswers' = 0
    /\ lastOutcome' = "ok"
    /\ UNCHANGED <<settings, lastPlayToken, audioCtx, bufferPromiseCache,
                   synthFallbackWarned, timers, calls, rafPending, rafRunning,
                   now, missingSamples>>

(*************************** specification **********************************)
\* Math.random() as pickQuestion draws it under settings s.
Draws(s) == UNION {{<<j, r>> : r \in RootDraws(s, j)} : j \in IntervalDraws(s)}

Next ==
    \/ \E form \in UiForms : \E d \in Draws(FormSettings(form)) :
          applySettingsAndRestart(form, d[1], d[2])
    \/ ShowSettings
    \/ hideSettingsModal
    \/ stopAndResetToNotStarted
    \/ ReplayClick
    \/ \E d \in Draws(settings) : NextClick(d[1], d[2])
    \/ \E i \in AnswerButtons : onAnswer(i)
    \/ RafFrame
    \/ \E c \in calls : ContinueAfterResume(c)
    \/ \E c \in calls : ContinueAfterLoad(c)
    \/ \E t \in timers : EnableTimerFires(t)
    \/ CtxResumed
    \/ \E url \in Urls : FetchDone(url)

Spec == Init /\ [][Next]_vars

(************************ the specification with a clock ********************)
\* Spec leaves the clock at 0 and lets a pending timer fire at any moment: a
\* load may take any time, so any delay is one the program can see.  SpecTimed
\* runs the clock: a timer fires no earlier than its due time.

\* The instants the clock is followed to: the due time of a pending timer,
\* and, while a call waits for its samples, the instant just past the start
\* it has scheduled (the load outlasts the lead time).
TickTargets ==
    {t.due : t \in timers} \cup {c.t0 + 1 : c \in {x \in calls : x.stage = "load"}}

\* Time passes between two events.
Tick(d) ==
    /\ ~Busy
    /\ d > now
    /\ now' = d
    /\ lastOutcome' = "ok"
    /\ UNCHANGED <<started, canAnswer, awaitingNext, question, settings, score,
                   lastPlayToken, audioCtx, activeVoices, activeUiAudios,
                   bufferPromiseCache, synthFallbackWarned, missingSamples,
                   settingsModalOpen, timers, calls, rafPending, rafRunning,
                   qPlayed, qAnswers>>

\* window.setTimeout runs the callback once its delay has passed.
TimedFire(t) == t.due <= now /\ EnableTimerFires(t)

InitTimed ==
    /\ Init
    /\ audioCtx \in {"suspended", "running"}
    /\ missingSamples = {}

\* SpecTimed follows the fixed-root forms and one draw.
TimedForms == {f \in UiForms : f.mode = "fixed"}

NextTimed ==
    \/ \E form \in TimedForms : applySettingsAndRestart(form, 0, 0)
    \/ ShowSettings
    \/ hideSettingsModal
    \/ stopAndResetToNotStarted
    \/ ReplayClick
    \/ NextClick(0, 0)
    \/ \E i \in AnswerButtons : onAnswer(i)
    \/ RafFrame
    \/ \E c \in calls : ContinueAfterResume(c)
    \/ \E c \in calls : ContinueAfterLoad(c)
    \/ \E t \in timers : TimedFire(t)
    \/ CtxResumed
    \/ \E url \in Urls : FetchDone(url)
    \/ \E d \in TickTargets : Tick(d)

SpecTimed == InitTimed /\ [][NextTimed]_vars

(******************** the settings form as an open interface ****************)
\* SpecForm reads the form as the spec's section 6 does, as a caller the core
\* does not trust: rootNoteSel may hold a pitch its option list would not
\* offer for the chosen interval count.
RawForms ==
    {[count |-> 2, mode |-> "fixed", root |-> p] : p \in {MIN_PITCH, MAX_PITCH - 1}}

InitForm ==
    /\ Init
    /\ audioCtx = "running"
    /\ missingSamples = {}

NextForm ==
    \/ \E form \in RawForms : \E d \in Draws(FormSettings(form)) :
          applySettingsAndRestart(form, d[1], d[2])
    \/ ShowSettings
    \/ hideSettingsModal
    \/ stopAndResetToNotStarted
    \/ ReplayClick
    \/ \E d \in Draws(settings) : NextClick(d[1], d[2])
    \/ \E i \in AnswerButtons : onAnswer(i)
    \/ RafFrame
    \/ \E c \in calls : ContinueAfterResume(c)
    \/ \E c \in calls : ContinueAfterLoad(c)
    \/ \E t \in timers : EnableTimerFires(t)
    \/ \E url \in Urls : FetchDone(url)

SpecForm == InitForm /\ [][NextForm]_vars

(********************** the question generator alone ***********************)
\* SpecGen applies pickQuestion to settings of every shape, with Math.random()
\* followed as the fraction u / RandomResolution.
RandomResolution == 24  \* values of Math.random() followed
GenCountMax == 14       \* interval counts 0..GenCountMax, and NaN
PitchMargin == 2        \* fixed roots from MIN_PITCH - margin to MAX_PITCH + margin

RandomUnits == 0 .. (RandomResolution - 1)

\* Math.floor(Math.random() * n), lines 827 and 832.
RandomFloor(u, n) == (u * n) \div RandomResolution

GenCounts == (0 .. GenCountMax) \cup {NaN}
GenRoots == (MIN_PITCH - PitchMargin) .. (MAX_PITCH + PitchMargin)

\* In random mode the fixed root is not read: one value of it is followed.
GenSettings ==
    {[intervalCount |-> c, rootMode |-> "fixed", fixedRootPitch |-> p] :
        c \in GenCounts, p \in GenRoots}
    \cup
    {[intervalCount |-> c, rootMode |-> "random",
      fixedRootPitch |-> pitchFromPcOct(0, 4)] : c \in GenCounts}

\* The state init() leaves, but for the settings, which are any of GenSettings.
InitGen ==
    /\ started = FALSE
    /\ canAnswer = FALSE
    /\ awaitingNext = FALSE
    /\ question = NoQ
    /\ settings \in GenSettings
    /\ score = ZeroScore
    /\ lastPlayToken = 0
    /\ audioCtx = "running"
    /\ activeVoices = {}
    /\ activeUiAudios = 0
    /\ bufferPromiseCache = [u \in {} |-> "pending"]
    /\ synthFallbackWarned = FALSE
    /\ missingSamples = {}
    /\ settingsModalOpen = TRUE
    /\ timers = {}
    /\ calls = {}
    /\ rafPending = 0
    /\ rafRunning = 0
    /\ now = 0
    /\ qPlayed = FALSE
    /\ qAnswers = 0
    /\ lastOutcome = "ok"

\* The interval index and the root offset pickQuestion draws from two values
\* of Math.random().
IntervalIndex(s, u1) == RandomFloor(u1, Len(activeIntervals(s)))
RootOffset(s, u1, u2) ==
    LET d == activeIntervals(s)[IntervalIndex(s, u1) + 1].semitones
    IN  RandomFloor(u2, (MAX_PITCH - d) - MIN_PITCH + 1)

\* question = pickQuestion(), line 908, by itself.
Generate(u1, u2) ==
    /\ question' = pickQuestion(settings, IntervalIndex(settings, u1),
                                RootOffset(settings, u1, u2))
    /\ lastOutcome' = IF question' = NoQ THEN "noQuestion" ELSE "ok"
    /\ UNCHANGED <<started, canAnswer, awaitingNext, settings, score,
                   lastPlayToken, audioCtx, activeVoices, activeUiAudios,
                   bufferPromiseCache, synthFallbackWarned, missingSamples,
                   settingsModalOpen, timers, calls, rafPending, rafRunning,
                   now, qPlayed, qAnswers>>

NextGen == \E u1 \in RandomUnits : \E u2 \in RandomUnits : Generate(u1, u2)

SpecGen == InitGen /\ [][NextGen]_vars

(************************** the page from its load *************************)
\* SpecBoot starts before init() has run: no audio context exists yet, and
\* the browser either has Web Audio ("uncreated") or not ("null").

\* ensureAudioGraph(), lines 268-283: the context, created on the first call
\* in the state `fresh` the browser gives it; null without Web Audio.
ensureAudioGraph(ctx, fresh) == IF ctx = "uncreated" THEN fresh ELSE ctx

\* The audio state stopAllAudio works on.
AudioState == [ctx |-> audioCtx, voices |-> activeVoices, ui |-> activeUiAudios]

\* stopAllAudio(fadeSec), lines 329-332, on audio state a: stopUiSounds
\* empties the UI sounds; stopAllNotes gets the context from ensureAudioGraph
\* and, if there is one, fades every voice.
stopAllAudio(a, fresh) ==
    LET ctx == ensureAudioGraph(a.ctx, fresh)
    IN  [ctx |-> ctx,
         voices |-> IF ctx = "null" THEN a.voices
                    ELSE {[v EXCEPT !.fading = TRUE] : v \in a.voices},
         ui |-> 0]

\* The states a new AudioContext can be in.
FreshContexts == {"suspended", "running"}

\* init() has run once the begin modal is shown or the game is started.
Booted == started \/ settingsModalOpen

\* init(), lines 1252-1265: its showSettingsModal({ purpose: "begin" })
\* calls stopAllAudio and shows the modal.
init(fresh) ==
    /\ ~Booted
    /\ LET a == stopAllAudio(AudioState, fresh)
       IN  /\ audioCtx' = a.ctx
           /\ activeVoices' = a.voices
           /\ activeUiAudios' = a.ui
    /\ settingsModalOpen' = TRUE
    /\ lastOutcome' = "ok"
    /\ UNCHANGED <<started, canAnswer, awaitingNext, question, settings, score,
                   lastPlayToken, bufferPromiseCache, synthFallbackWarned,
                   missingSamples, timers, calls, rafPending, rafRunning, now,
                   qPlayed, qAnswers>>

\* The state when the script has been evaluated and init() not yet called.
InitBoot ==
    /\ started = FALSE
    /\ canAnswer = FALSE
    /\ awaitingNext = FALSE
    /\ question = NoQ
    /\ settings = [intervalCount |-> 12, rootMode |-> "random",
                   fixedRootPitch |-> pitchFromPcOct(0, 4)]
    /\ score = ZeroScore
    /\ lastPlayToken = 0
    /\ audioCtx \in {"null", "uncreated"}
    /\ activeVoices = {}
    /\ activeUiAudios = 0
    /\ bufferPromiseCache = [u \in {} |-> "pending"]
    /\ synthFallbackWarned = FALSE
    /\ missingSamples \in SampleWorlds
    /\ settingsModalOpen = FALSE
    /\ timers = {}
    /\ calls = {}
    /\ rafPending = 0
    /\ rafRunning = 0
    /\ now = 0
    /\ qPlayed = FALSE
    /\ qAnswers = 0
    /\ lastOutcome = "ok"

\* init() first, since bind() and init() run before any event; then Next.
NextBoot ==
    \/ \E fresh \in FreshContexts : init(fresh)
    \/ Booted /\ \E form \in UiForms : \E d \in Draws(FormSettings(form)) :
          applySettingsAndRestart(form, d[1], d[2])
    \/ Booted /\ ShowSettings
    \/ Booted /\ hideSettingsModal
    \/ Booted /\ stopAndResetToNotStarted
    \/ Booted /\ ReplayClick
    \/ Booted /\ \E d \in Draws(settings) : NextClick(d[1], d[2])
    \/ Booted /\ \E i \in AnswerButtons : onAnswer(i)
    \/ Booted /\ RafFrame
    \/ Booted /\ \E c \in calls : ContinueAfterResume(c)
    \/ Booted /\ \E c \in calls : ContinueAfterLoad(c)
    \/ Booted /\ \E t \in timers : EnableTimerFires(t)
    \/ Booted /\ CtxResumed
    \/ Booted /\ \E url \in Urls : FetchDone(url)

SpecBoot == InitBoot /\ [][NextBoot]_vars

(************************** the score tracker alone ************************)
\* SpecScore applies the score update of onAnswer to every sequence of
\* answers up to MaxAnswers, with resets in between.
MaxAnswers == 4     \* answers recorded since the last reset

\* The questions answered: the two pickQuestion gives for count 2 on C3.
ScoreQuestions ==
    {pickQuestion([intervalCount |-> 2, rootMode |-> "fixed",
                   fixedRootPitch |-> MIN_PITCH], j, 0) : j \in {0, 1}}

\* Lines 953-1003 of onAnswer: the score update for question q and the guess
\* intervalIndex.
RecordAnswer(q, intervalIndex) ==
    /\ Len(score.history) < MaxAnswers
    /\ score' = Recorded(score, q, IVL_ALL[intervalIndex + 1], settings)
    /\ lastOutcome' = "ok"
    /\ UNCHANGED <<started, canAnswer, awaitingNext, question, settings,
                   lastPlayToken, audioCtx, activeVoices, activeUiAudios,
                   bufferPromiseCache, synthFallbackWarned, missingSamples,
                   settingsModalOpen, timers, calls, rafPending, rafRunning,
                   now, qPlayed, qAnswers>>

\* resetScore(), lines 1128-1135, as reset and apply call it.
ScoreReset ==
    /\ score # ZeroScore
    /\ score' = resetScore
    /\ lastOutcome' = "scoreReset"
    /\ UNCHANGED <<started, canAnswer, awaitingNext, question, settings,
                   lastPlayToken, audioCtx, activeVoices, activeUiAudios,
                   bufferPromiseCache, synthFallbackWarned, missingSamples,
                   settingsModalOpen, timers, calls, rafPending, rafRunning,
                   now, qPlayed, qAnswers>>

InitScore ==
    /\ Init
    /\ audioCtx = "running"
    /\ missingSamples = {}

NextScore ==
    \/ \E q \in ScoreQuestions : \E i \in {0, 1} : RecordAnswer(q, i)
    \/ ScoreReset

SpecScore == InitScore /\ [][NextScore]_vars

(********************* onAnswer as an open interface ***********************)
\* SpecRaw calls onAnswer with any index, as a caller other than the buttons
\* of buildAnswerButtons could: one below the catalog, two of it, one above.
MaxThrows == 2      \* onAnswer calls that throw, per score

RawIndices == {0 - 1, 0, 1, Len(IVL_ALL)}

\* Room, under the bounds, for one more call with index i.
ThrowRoom(i) ==
    \/ i \in 0 .. (Len(IVL_ALL) - 1)
    \/ score.asked - Len(score.history) < MaxThrows

NextRaw ==
    \/ \E form \in UiForms : \E d \in Draws(FormSettings(form)) :
          applySettingsAndRestart(form, d[1], d[2])
    \/ ShowSettings
    \/ hideSettingsModal
    \/ stopAndResetToNotStarted
    \/ ReplayClick
    \/ \E d \in Draws(settings) : NextClick(d[1], d[2])
    \/ \E i \in RawIndices : ThrowRoom(i) /\ onAnswer(i)
    \/ RafFrame
    \/ \E c \in calls : ContinueAfterResume(c)
    \/ \E c \in calls : ContinueAfterLoad(c)
    \/ \E t \in timers : EnableTimerFires(t)
    \/ \E url \in Urls : FetchDone(url)

SpecRaw == InitForm /\ [][NextRaw]_vars

(************************ the pitch decomposition alone *********************)
\* SpecPitch applies the decomposition of loadPitchBuffer to every pitch of
\* OctaveSpan octaves on either side of zero.
OctaveSpan == 5     \* octaves -OctaveSpan .. OctaveSpan

Octaves == (0 - OctaveSpan) .. OctaveSpan
PitchClasses == 0 .. 11
Pitches == {pitchFromPcOct(pc, oct) : pc \in PitchClasses, oct \in Octaves}

\* The state init() leaves, with any of Pitches as the pitch at hand.
InitPitch ==
    /\ started = FALSE
    /\ canAnswer = FALSE
    /\ awaitingNext = FALSE
    /\ question = NoQ
    /\ \E p \in Pitches :
          settings = [intervalCount |-> 12, rootMode |-> "fixed",
                      fixedRootPitch |-> p]
    /\ score = ZeroScore
    /\ lastPlayToken = 0
    /\ audioCtx = "running"
    /\ activeVoices = {}
    /\ activeUiAudios = 0
    /\ bufferPromiseCache = [u \in {} |-> "pending"]
    /\ synthFallbackWarned = FALSE
    /\ missingSamples = {}
    /\ settingsModalOpen = TRUE
    /\ timers = {}
    /\ calls = {}
    /\ rafPending = 0
    /\ rafRunning = 0
    /\ now = 0
    /\ qPlayed = FALSE
    /\ qAnswers = 0
    /\ lastOutcome = "ok"

\* loadPitchBuffer(pitch), lines 454-461, to its await: the pitch class, the
\* octave, the url made of them, and loadBuffer(url).
loadPitchBuffer(pitch) ==
    /\ ~CacheHas(bufferPromiseCache, PitchUrl(pitch))
    /\ bufferPromiseCache' = loadBuffer(bufferPromiseCache, PitchUrl(pitch))
    /\ lastOutcome' = "loading"
    /\ UNCHANGED <<started, canAnswer, awaitingNext, question, settings, score,
                   lastPlayToken, audioCtx, activeVoices, activeUiAudios,
                   synthFallbackWarned, missingSamples, settingsModalOpen,
                   timers, calls, rafPending, rafRunning, now, qPlayed,
                   qAnswers>>

NextPitch == loadPitchBuffer(settings.fixedRootPitch)

SpecPitch == InitPitch /\ [][NextPitch]_vars

(******************** the event loop under fairness ************************)
\* SpecLive is the game in a browser that has an audio engine, with the event
\* loop's guarantees: a requested animation frame is served, a settled await
\* is continued, a pending timer fires, ctx.resume() and every fetch end.
\* The user's commands have no fairness.  The context starts suspended (it
\* runs once resumed), in the asset directory where C#3 is missing: there
\* the minor second falls back to the synthesizer and the major second
\* loads both its samples.
InitLive ==
    /\ Init
    /\ audioCtx = "suspended"
    /\ missingSamples = {PitchUrl(MIN_PITCH + 1)}

Fairness ==
    /\ WF_vars(RafFrame)
    /\ WF_vars(\E c \in calls : ContinueAfterResume(c))
    /\ WF_vars(\E c \in calls : ContinueAfterLoad(c))
    /\ WF_vars(\E t \in timers : EnableTimerFires(t))
    /\ WF_vars(CtxResumed)
    /\ WF_vars(\E url \in Urls : FetchDone(url))

\* The commands of a session whose settings modal is only the begin screen:
\* a settings restart then follows a reset, never interrupts a round.
NextLive ==
    \/ \E form \in UiForms : \E d \in Draws(FormSettings(form)) :
          applySettingsAndRestart(form, d[1], d[2])
    \/ stopAndResetToNotStarted
    \/ ReplayClick
    \/ \E d \in Draws(settings) : NextClick(d[1], d[2])
    \/ \E i \in AnswerButtons : onAnswer(i)
    \/ RafFrame
    \/ \E c \in calls : ContinueAfterResume(c)
    \/ \E c \in calls : ContinueAfterLoad(c)
    \/ \E t \in timers : EnableTimerFires(t)
    \/ CtxResumed
    \/ \E url \in Urls : FetchDone(url)

SpecLive == InitLive /\ [][NextLive]_vars /\ Fairness

(******************************* claims *************************************)
\* The phases of the spec's section 4.3, read off the flags.
InAwaitingAnswer == started /\ question # NoQ /\ canAnswer /\ ~awaitingNext
InLocked == started /\ awaitingNext

\* Everything a timer callback could touch besides the timer set itself.
timerFrame == <<started, canAnswer, awaitingNext, question, settings, score,
                lastPlayToken, audioCtx, activeVoices, activeUiAudios,
                bufferPromiseCache, synthFallbackWarned, settingsModalOpen,
                calls, rafPending, rafRunning, now>>

InListening == started /\ question # NoQ /\ ~canAnswer /\ ~awaitingNext

\* C1. Token supersession: an enable timer whose token is no longer
\* lastPlayToken when it fires changes nothing but the timer set, and every
\* step that turns canAnswer from false to true is the firing of the timer
\* whose token equals lastPlayToken.
C1_TokenSupersession ==
    [][ /\ \A t \in timers :
              (t.token # lastPlayToken /\ EnableTimerFires(t))
                  => UNCHANGED timerFrame
        /\ (~canAnswer /\ canAnswer')
              => \E t \in timers : /\ t.token = lastPlayToken
                                   /\ timers' = timers \ {t}
      ]_vars

\* A superseded timer has fired, and found itself stale, while a round is on.
C1_Witness ==
    /\ lastOutcome = "staleTimer"
    /\ started /\ question # NoQ /\ ~canAnswer
    /\ lastPlayToken >= 2

\* What onAnswer may change.
answerFrame == <<started, canAnswer, awaitingNext, question, settings, score,
                 lastPlayToken, activeVoices, activeUiAudios, timers, calls,
                 rafPending, rafRunning>>

\* C2. onAnswer outside AwaitingAnswer changes nothing; accepted, it appends
\* exactly one history event, adds one to asked and locks the machine.
C2_AnswerGate ==
    [][ \A i \in 0 .. (Len(IVL_ALL) - 1) :
            onAnswer(i) =>
                IF InAwaitingAnswer
                THEN /\ Len(score'.history) = Len(score.history) + 1
                     /\ SubSeq(score'.history, 1, Len(score.history)) = score.history
                     /\ score'.asked = score.asked + 1
                     /\ ~canAnswer' /\ awaitingNext'
                     /\ UNCHANGED <<question, lastPlayToken, started>>
                ELSE UNCHANGED answerFrame
      ]_vars

\* One answer was accepted, and a second click, in Locked, was ignored.
C2_Witness ==
    /\ lastOutcome = "ignoredAnswer"
    /\ InLocked
    /\ score.asked = 1 /\ Len(score.history) = 1

\* C3. A stale enable timer cannot corrupt state: whenever canAnswer is true
\* the game is started, a question exists and that question has had a
\* playback request of its own.
C3_NoStaleEnable ==
    canAnswer => (started /\ question # NoQ /\ qPlayed)

\* C4. Reset is accepted from every phase (whenever the event loop is idle)
\* and leaves NotStarted with no question and a zero score.
C4_ResetFromAnyPhase ==
    /\ [](~Busy => ENABLED stopAndResetToNotStarted)
    /\ [][ stopAndResetToNotStarted =>
              /\ started' = FALSE /\ canAnswer' = FALSE /\ awaitingNext' = FALSE
              /\ question' = NoQ
              /\ score'.asked = 0 /\ score'.correct = 0 /\ score'.incorrect = 0
              /\ score'.streak = 0 /\ score'.longest = 0
              /\ score'.history = <<>>
         ]_vars

\* A reset has run after a round was played and while an enable timer was
\* still pending.
C4_Witness ==
    /\ ~started /\ ~canAnswer /\ ~awaitingNext /\ question = NoQ
    /\ score = ZeroScore
    /\ lastPlayToken > 0
    /\ timers # {}
    /\ settingsModalOpen

ReplayOrTimerStep ==
    \/ ReplayClick
    \/ \E t \in timers : EnableTimerFires(t)
    \/ \E c \in calls : ContinueAfterResume(c)
    \/ \E c \in calls : ContinueAfterLoad(c)
    \/ CtxResumed
    \/ \E url \in Urls : FetchDone(url)

\* C6. In Locked, replays and timer firings keep awaitingNext true and
\* canAnswer false, and a replay issued in Locked (allow = FALSE) that
\* completes in Locked schedules its two voices.
C6_LockedReplay ==
    [][ /\ (awaitingNext /\ ReplayOrTimerStep) => (awaitingNext' /\ ~canAnswer')
        /\ \A c \in calls :
              (awaitingNext /\ ~c.allow /\ ContinueAfterLoad(c))
                  => /\ activeVoices \subseteq activeVoices'
                     /\ Cardinality(activeVoices' \ activeVoices) = 2
                     /\ \A v \in activeVoices' \ activeVoices :
                           v.token = c.token /\ ~v.fading
      ]_vars

\* A replay issued in Locked has scheduled its two voices; the machine is
\* still Locked.
C6_Witness ==
    /\ lastOutcome = "playedOnly"
    /\ InLocked /\ ~canAnswer
    /\ Cardinality({v \in activeVoices : v.token = lastPlayToken /\ ~v.fading}) = 2

\* C7. A replay in AwaitingAnswer sets canAnswer to false at once and leaves
\* every existing timer stale; canAnswer is true only when the latest
\* playback request has run to its end and its timer has fired.
C7_ReplayRearms ==
    /\ [][ (ReplayClick /\ InAwaitingAnswer)
              => /\ ~canAnswer'
                 /\ lastPlayToken' = lastPlayToken + 1
                 /\ \A t \in timers' : t.token < lastPlayToken'
         ]_vars
    /\ [](canAnswer => /\ \A c \in calls : c.token # lastPlayToken
                       /\ \A t \in timers : t.token # lastPlayToken)

\* A replay was accepted in AwaitingAnswer: answering is off again.
C7_Witness ==
    /\ lastOutcome = "replayRearm"
    /\ started /\ ~canAnswer /\ ~awaitingNext
    /\ \E c \in calls : c.token = lastPlayToken /\ c.allow

\* C8. Replay without a started game or a question, and next outside Locked,
\* change no program state and raise no error.
C8_IllegalCommandsNoop ==
    [][ /\ (ReplayClick /\ (~started \/ question = NoQ))
              => (UNCHANGED progVars /\ lastOutcome' # "threw")
        /\ \A d \in Draws(settings) :
              (NextClick(d[1], d[2]) /\ ~InLocked)
                  => (UNCHANGED progVars /\ lastOutcome' # "threw")
      ]_vars

\* Next was pressed while the round was awaiting an answer, and was ignored.
C8_Witness ==
    /\ lastOutcome = "ignoredNext"
    /\ InAwaitingAnswer

\* C9. The voices scheduled and not being faded out belong to the latest
\* token, and are at most two.
C9_OnlyLatestTokenSounds ==
    /\ \A v \in activeVoices : ~v.fading => v.token = lastPlayToken
    /\ Cardinality({v \in activeVoices : ~v.fading}) <= 2

\* C10. A failed question generation does not leave the machine started with
\* no question, nothing pending, and replay, answer and next all no-ops.
C10_NotStuckWithoutQuestion ==
    ~(/\ started /\ question = NoQ
      /\ rafPending = 0 /\ rafRunning = 0 /\ calls = {})

\* The interval and the root pickQuestion has chosen, for two values of
\* Math.random() under the current settings.
ChosenInterval(u1) == IVL_ALL[IntervalIndex(settings, u1) + 1]
ChosenRoot(u1, u2) ==
    IF settings.rootMode = "random"
    THEN MIN_PITCH + RootOffset(settings, u1, u2)
    ELSE settings.fixedRootPitch

\* C11. For every settings value with an integer root and every draw,
\* pickQuestion returns null exactly when the chosen root and interval do
\* not both fit in [MIN_PITCH, MAX_PITCH]; otherwise both pitches are in
\* range and highPitch = rootPitch + interval.semitones.
C11_QuestionInRangeOrNull ==
    /\ \A u1 \in RandomUnits : \A u2 \in RandomUnits :
          LET root == ChosenRoot(u1, u2)
              d == ChosenInterval(u1).semitones
              fits == /\ MIN_PITCH <= root /\ root <= MAX_PITCH
                      /\ MIN_PITCH <= root + d /\ root + d <= MAX_PITCH
              q == pickQuestion(settings, IntervalIndex(settings, u1),
                                RootOffset(settings, u1, u2))
          IN  (q = NoQ) <=> ~fits
    /\ question # NoQ =>
          /\ MIN_PITCH <= question.rootPitch
          /\ question.rootPitch <= MAX_PITCH
          /\ MIN_PITCH <= question.highPitch
          /\ question.highPitch <= MAX_PITCH
          /\ question.highPitch = question.rootPitch + question.interval.semitones

\* pickQuestion has returned null for a root in range that leaves no room
\* for the interval.
C11_Witness ==
    /\ lastOutcome = "noQuestion"
    /\ question = NoQ
    /\ settings.rootMode = "fixed"
    /\ settings.fixedRootPitch = MAX_PITCH - 1
    /\ settings.intervalCount = 12

\* C12. In fixed root mode every question pickQuestion returns has the
\* fixed root and one of the first intervalCount catalog entries.
C12_FixedRootQuestions ==
    (settings.rootMode = "fixed" /\ question # NoQ) =>
        /\ question.rootPitch = settings.fixedRootPitch
        /\ \E k \in 1 .. 12 :
              /\ k <= Max(2, Min(12, settings.intervalCount))
              /\ question.interval = IVL_ALL[k]

\* Count 2 with root C4 has given root C4 with the major second.
C12_Witness ==
    /\ settings = [intervalCount |-> 2, rootMode |-> "fixed",
                   fixedRootPitch |-> pitchFromPcOct(0, 4)]
    /\ question # NoQ
    /\ question.rootPitch = pitchFromPcOct(0, 4)
    /\ question.interval.code = "M2"

\* C13. In random root mode, for every interval count and every draw,
\* pickQuestion returns a question whose root lies in
\* [MIN_PITCH, MAX_PITCH - interval.semitones], and for every interval both
\* ends of that range are drawn by some value of Math.random().
C13_RandomRootRange ==
    settings.rootMode = "random" =>
        \A u1 \in RandomUnits :
            LET d == ChosenInterval(u1).semitones
                q(u2) == pickQuestion(settings, IntervalIndex(settings, u1),
                                      RootOffset(settings, u1, u2))
            IN  /\ \A u2 \in RandomUnits :
                      /\ q(u2) # NoQ
                      /\ MIN_PITCH <= q(u2).rootPitch
                      /\ q(u2).rootPitch <= MAX_PITCH - q(u2).interval.semitones
                /\ \E u2 \in RandomUnits : q(u2).rootPitch = MIN_PITCH
                /\ \E u2 \in RandomUnits : q(u2).rootPitch = MAX_PITCH - d

\* With twelve intervals, the octave has been drawn on the highest root
\* that leaves room for it.
C13_Witness ==
    /\ settings.rootMode = "random"
    /\ settings.intervalCount = 12
    /\ question # NoQ
    /\ question.interval.code = "P8"
    /\ question.rootPitch = MAX_PITCH - 12
    /\ question.highPitch = MAX_PITCH

\* C14. activeIntervals returns the first intervalCount catalog entries in
\* catalog order (semitones 1..intervalCount) for a count in 2..12; a count
\* below 2 or not a number gives the first two, a count above 12 all twelve.
C14_ActiveIntervalsPrefix ==
    LET n == settings.intervalCount
        list == activeIntervals(settings)
    IN  /\ (n \in 2 .. 12) => Len(list) = n
        /\ (n = NaN \/ n < 2) => Len(list) = 2
        /\ (n # NaN /\ n > 12) => Len(list) = 12
        /\ \A k \in 1 .. Len(list) :
              list[k] = IVL_ALL[k] /\ list[k].semitones = k

\* A count above twelve has been clamped: the question drawn is the octave,
\* the twelfth entry.
C14_Witness ==
    /\ settings.intervalCount > 12
    /\ question # NoQ
    /\ question.interval.code = "P8"
    /\ Len(activeIntervals(settings)) = 12

\* The length of the run of correct answers that ends history h, and the
\* longest run of consecutive correct answers in h.
RunsCorrect(h, from, len) == \A i \in from .. (from + len - 1) : h[i].correct
TrailingRun(h) ==
    LET runs == {k \in 0 .. Len(h) : RunsCorrect(h, Len(h) - k + 1, k)}
    IN  CHOOSE k \in runs : \A m \in runs : m <= k
LongestRun(h) ==
    LET runs == {k \in 0 .. Len(h) :
                    \E from \in 1 .. (Len(h) - k + 1) : RunsCorrect(h, from, k)}
    IN  CHOOSE k \in runs : \A m \in runs : m <= k

\* C15. After any sequence of answers since the last score reset, streak is
\* the length of the trailing run of correct answers in the history (0 after
\* an incorrect answer), and longest is the longest run of consecutive
\* correct answers so far, hence at least streak.
C15_StreakInvariant ==
    /\ score.streak = TrailingRun(score.history)
    /\ score.longest = LongestRun(score.history)
    /\ score.longest >= score.streak
    /\ (score.history # <<>> /\ ~score.history[Len(score.history)].correct)
          => score.streak = 0

\* Two correct answers, an incorrect one, then a correct one: the streak is
\* 1 and the longest streak 2.
C15_Witness ==
    /\ Len(score.history) = 4
    /\ score.history[1].correct /\ score.history[2].correct
    /\ ~score.history[3].correct /\ score.history[4].correct
    /\ score.streak = 1
    /\ score.longest = 2

\* C16. scorePercent (in tenths of a percent) is 0 when asked = 0 and
\* otherwise the integer nearest to 1000 * correct / asked, a half rounded
\* up; asked = 4 with correct = 3 gives 75.0; it lies in [0, 100].
C16_ScorePercent ==
    LET p == scorePercent(score)
        a == score.asked
        c == score.correct
    IN  /\ a = 0 => p = 0
        /\ a > 0 => /\ 2 * a * p - a <= 2000 * c
                    /\ 2000 * c < 2 * a * p + a
        /\ (a = 4 /\ c = 3) => p = 750
        /\ 0 <= p /\ p <= 1000

\* Three answers, two of them correct: 66.67 is shown as 66.7.
C16_Witness ==
    /\ score.asked = 3
    /\ score.correct = 2
    /\ scorePercent(score) = 667

\* C17. loadBuffer fetches a url at most once: a cache entry, once written,
\* stays; a settled entry never changes; a pending entry is settled only by
\* the end of its own fetch; and a playback request that asks for a cached
\* url leaves its entry as it is.
C17_OneFetchPerUrl ==
    [][ \A url \in DOMAIN bufferPromiseCache :
          /\ url \in DOMAIN bufferPromiseCache'
          /\ bufferPromiseCache[url] # "pending"
                => bufferPromiseCache'[url] = bufferPromiseCache[url]
          /\ (bufferPromiseCache[url] = "pending"
                /\ bufferPromiseCache'[url] # "pending") => FetchDone(url)
          /\ (\E c \in calls : ContinueAfterResume(c))
                => bufferPromiseCache'[url] = bufferPromiseCache[url]
      ]_vars

\* Two playback requests wait for the same load, still in flight.
C17_Witness ==
    \E c1 \in calls : \E c2 \in calls :
        /\ c1.token # c2.token
        /\ c1.stage = "load" /\ c2.stage = "load"
        /\ c1.a1 = c2.a1
        /\ bufferPromiseCache[PitchUrl(c1.a1)] = "pending"

\* C18. Whenever a note's sample has failed to load, the playback request
\* (of a game that is started and has a question) schedules a synthesized
\* voice for that note at the start time the sample would have had, and the
\* warning flag is set; once set the flag stays set, so the warning is issued
\* once.
C18_SynthFallback ==
    [][ /\ \A c \in calls :
              (started /\ question # NoQ /\ ContinueAfterLoad(c)) =>
                 /\ ~HasBuffer(PitchUrl(c.a1))
                       => /\ Voice(c.token, c.a1, c.t0, TRUE) \in activeVoices'
                          /\ synthFallbackWarned'
                 /\ ~HasBuffer(PitchUrl(c.a2))
                       => /\ Voice(c.token, c.a2,
                                   c.t0 + NOTE_PLAY_SEC + GAP_SEC, TRUE)
                                \in activeVoices'
                          /\ synthFallbackWarned'
        /\ synthFallbackWarned => synthFallbackWarned'
      ]_vars

\* C19. stopAllAudio with no voice and no UI sound active changes nothing of
\* the audio state (it touches no other state), whatever context a browser
\* would create; and stopAllAudio twice is stopAllAudio once.
C19_StopAllNoop ==
    \A f1 \in FreshContexts : \A f2 \in FreshContexts :
        /\ (activeVoices = {} /\ activeUiAudios = 0)
              => stopAllAudio(AudioState, f1) = AudioState
        /\ stopAllAudio(stopAllAudio(AudioState, f1), f2)
              = stopAllAudio(AudioState, f1)

\* C20. After applySettingsAndRestart the settings are valid whatever the
\* form held: the count is in 2..12, the mode is random or fixed, and the
\* fixed root leaves room for the largest active interval inside
\* [MIN_PITCH, MAX_PITCH].
C20_SettingsValidated ==
    /\ settings.intervalCount \in 2 .. 12
    /\ settings.rootMode \in {"random", "fixed"}
    /\ MIN_PITCH <= settings.fixedRootPitch
    /\ settings.fixedRootPitch + IVL_ALL[settings.intervalCount].semitones
          <= MAX_PITCH

\* C21. Under fairness of animation frames, continuations, timers, the
\* engine's resume and the loads, every state in Listening (started, a
\* question, not answerable, not locked) is followed by a state where
\* canAnswer is true or the game has been reset.
C21_ListeningReachesAnswer ==
    InListening ~> (canAnswer \/ ~started)

\* A round whose first request was replaced by a replay, and one of whose
\* samples is missing, has become answerable.
C21_Witness ==
    /\ InAwaitingAnswer
    /\ lastPlayToken = 2
    /\ synthFallbackWarned
    /\ \E v \in activeVoices : v.token = 2 /\ v.synth
    /\ timers = {} /\ calls = {}

\* C22. A playCurrentInterval call that resumes after a reset (the game is
\* not started when its await ends) schedules no voice, arms no timer and
\* raises no error.
C22_ResetCancelsInFlight ==
    [][ \A c \in calls :
            (~started /\ (ContinueAfterResume(c) \/ ContinueAfterLoad(c)))
                => /\ activeVoices' = activeVoices
                   /\ timers' = timers
                   /\ lastOutcome' # "threw"
      ]_vars

\* A playCurrentInterval call that passes the guard of line 851.
AcceptedPlay == (ReplayClick \/ RafFrame) /\ started /\ question # NoQ

\* C23. lastPlayToken never decreases; it grows by exactly 1 in the steps
\* where a playCurrentInterval call passes the started/question guard and in
\* no other step (rejected calls, onAnswer, timer firings and reset leave
\* it); the request then issued carries the new token, which no earlier
\* request, timer or voice carries, so no two requests share a token.
C23_TokenMonotone ==
    /\ [][ /\ lastPlayToken' >= lastPlayToken
           /\ IF AcceptedPlay
              THEN /\ lastPlayToken' = lastPlayToken + 1
                   /\ \E c \in calls' \ calls :
                         /\ c.token = lastPlayToken'
                         /\ calls' = calls \cup {c}
                   /\ \A x \in calls \cup timers \cup activeVoices :
                         x.token < lastPlayToken'
              ELSE lastPlayToken' = lastPlayToken
           /\ ((\E i \in AnswerButtons : onAnswer(i))
                  \/ (\E t \in timers : EnableTimerFires(t))
                  \/ stopAndResetToNotStarted)
                 => lastPlayToken' = lastPlayToken
         ]_vars
    /\ [](\A c1 \in calls : \A c2 \in calls :
              c1.token = c2.token => c1 = c2)

\* Two requests, with tokens 1 and 2, are in flight; a reset has left the
\* token at 2 and a replay after it was rejected.
C23_Witness ==
    /\ lastOutcome = "ignoredReplay"
    /\ ~started
    /\ lastPlayToken = 2
    /\ \E c1 \in calls : \E c2 \in calls : c1.token = 1 /\ c2.token = 2

\* The steps that are neither a new round nor a reset.
WithinRoundStep ==
    \/ ReplayClick
    \/ \E i \in AnswerButtons : onAnswer(i)
    \/ \E t \in timers : EnableTimerFires(t)
    \/ \E c \in calls : ContinueAfterResume(c)
    \/ \E c \in calls : ContinueAfterLoad(c)
    \/ CtxResumed
    \/ \E url \in Urls : FetchDone(url)
    \/ RafFrame
    \/ ShowSettings
    \/ hideSettingsModal

\* The question is left alone by replay, onAnswer, timers and completions.
C24_QuestionFrame ==
    [][ WithinRoundStep => question' = question ]_vars

\* C24. Replay, onAnswer, timer firings and audio completions leave question
\* unchanged, and the two voices a playback request schedules have the
\* pitches of the question that was current when the request was made.
C24_QuestionReadOnly ==
    [][ /\ WithinRoundStep => question' = question
        /\ \A c \in calls :
              ContinueAfterLoad(c) =>
                  \A v \in activeVoices' \ activeVoices :
                      v.pitch = IF v.startTime = c.t0 THEN c.issued[1]
                                ELSE c.issued[2]
      ]_vars

\* C25. For every pitch p (negative ones included) pcFromPitch(p) is in
\* 0..11, octFromPitch(p) is the floor of p / 12 and pitchFromPcOct puts the
\* two together into p again; for every pc in 0..11 and every octave,
\* pitchFromPcOct(pc, oct) decomposes into pc and oct; and the url
\* loadPitchBuffer asks for is the one of that pitch class and octave.
C25_PitchRoundTrip ==
    LET p == settings.fixedRootPitch
        pc == pcFromPitch(p)
        oct == octFromPitch(p)
    IN  /\ pc \in 0 .. 11
        /\ 12 * oct <= p /\ p < 12 * (oct + 1)
        /\ pitchFromPcOct(pc, oct) = p
        /\ \A c \in PitchClasses : \A o \in Octaves :
              /\ pcFromPitch(pitchFromPcOct(c, o)) = c
              /\ octFromPitch(pitchFromPcOct(c, o)) = o
        /\ \A url \in DOMAIN bufferPromiseCache :
              \E c \in PitchClasses : \E o \in Octaves :
                  /\ 12 * o + c = p
                  /\ url = noteUrl(PC_TO_STEM[c + 1], o)

\* The pitch -1 has been decomposed into pitch class 11 (B) of octave -1.
C25_Witness ==
    /\ settings.fixedRootPitch = 0 - 1
    /\ lastOutcome = "loading"
    /\ DOMAIN bufferPromiseCache = {noteUrl("b", 0 - 1)}

\* C26. At most one answer is recorded for a question: from its generation
\* by startNewRound to the next generation or reset, at most one history
\* event is appended.
C26_OneAnswerPerQuestion ==
    qAnswers <= 1

\* C27. A step that takes awaitingNext from true to false is an accepted
\* next, a reset or a settings restart: no timer firing and no part of a
\* playback request unlocks the machine for the question that was answered.
C27_LockedExit ==
    [][ (awaitingNext /\ ~awaitingNext') =>
            \/ stopAndResetToNotStarted
            \/ \E d \in Draws(settings) : NextClick(d[1], d[2])
            \/ \E form \in UiForms : \E d \in Draws(FormSettings(form)) :
                  applySettingsAndRestart(form, d[1], d[2])
      ]_vars

\* C28. canAnswer and awaitingNext are never both true, and awaitingNext
\* implies that the game is started and has a question.
C28_PhaseWellDefined ==
    /\ ~(canAnswer /\ awaitingNext)
    /\ awaitingNext => (started /\ question # NoQ)

\* The machine is Locked after one answer, and a superseded timer has fired
\* in Locked.
C28_Witness ==
    /\ lastOutcome = "staleTimer"
    /\ awaitingNext /\ ~canAnswer /\ started /\ question # NoQ
    /\ score.asked = 1

\* C29. In every state asked = correct + incorrect = the length of the
\* history, correct is the number of events flagged correct, and an event is
\* flagged correct exactly when its guess is its question's interval code;
\* an accepted answer appends one event, for the current question and the
\* button pressed, and any other step leaves the history or, being a reset
\* or a settings restart, empties it.
C29_ScoreConsistent ==
    /\ [](/\ score.asked = score.correct + score.incorrect
          /\ score.asked = Len(score.history)
          /\ score.correct =
                Cardinality({k \in 1 .. Len(score.history) :
                                score.history[k].correct})
          /\ \A k \in 1 .. Len(score.history) :
                score.history[k].correct
                    <=> (score.history[k].guess = score.history[k].interval))
    /\ [][ \/ score'.history = score.history
           \/ /\ score'.history = <<>>
              /\ \/ stopAndResetToNotStarted
                 \/ \E form \in UiForms : \E d \in Draws(FormSettings(form)) :
                       applySettingsAndRestart(form, d[1], d[2])
           \/ \E i \in AnswerButtons :
                 /\ onAnswer(i) /\ AnswerAccepted
                 /\ Len(score'.history) = Len(score.history) + 1
                 /\ SubSeq(score'.history, 1, Len(score.history)) = score.history
                 /\ score'.history[Len(score'.history)].interval
                       = question.interval.code
                 /\ score'.history[Len(score'.history)].guess = IVL_ALL[i + 1].code
         ]_vars

\* A correct answer, a next round and an incorrect answer have been recorded.
C29_Witness ==
    /\ Len(score.history) = 2
    /\ score.history[1].correct /\ ~score.history[2].correct
    /\ score.asked = 2 /\ score.correct = 1 /\ score.incorrect = 1
    /\ awaitingNext

\* C30. onAnswer in AwaitingAnswer with an index outside the catalog leaves
\* the score and the flags as they are, so that asked = correct + incorrect
\* holds afterwards as before.
C30_BadIndexNoop ==
    /\ [][ \A i \in RawIndices \ (0 .. (Len(IVL_ALL) - 1)) :
              (onAnswer(i) /\ InAwaitingAnswer)
                  => UNCHANGED <<score, canAnswer, awaitingNext>>
         ]_vars
    /\ [](score.asked = score.correct + score.incorrect)

====
